---- MODULE Spec2Model ----
(***************************************************************************)
(* Model of src/src/capture/main.cpp: the multi-device Azure Kinect        *)
(* recorder.  main() is one sequential thread; pc is its position, i the   *)
(* index of the loop it is in.  Every SDK call is an environment step      *)
(* whose result (success / failure / reading) is chosen nondeterministic-  *)
(* ally.  Device indices are 0-based as in the source; the vector          *)
(* `devices` is a sequence, so the context of index k is devices[k + 1].   *)
(***************************************************************************)
EXTENDS Integers, Sequences, FiniteSets, TLC

\* ---------------------------------------------------------------- bounds
MaxDevices == 3        \* largest k4a_device_get_installed_count() explored
MaxSeconds == 1        \* largest --seconds override explored
MaxPolls   == 1        \* polls that may return before the clock has ticked
MaxFairDevices == 2    \* largest device count explored for liveness

\* ------------------------------------------------------ program constants
DefaultRecordingLengthSec == 3
DefaultMasterIndex        == -1
DefaultSubordinateDelay   == 160
DieExitCode               == 1

\* ------------------------------------------------------ input domains
HwSerials    == {"s1"}                       \* serial numbers devices report
SerialArgs   == {"s1", "zz"}                 \* values of --master-serial
IndexArgs    == (-2) .. MaxDevices           \* values of --master-index
SecondsArgs  == (-1) .. MaxSeconds           \* values of --seconds
DelayArgs    == {0}                          \* values of --sub-delay-usec

VARIABLES
    pc, i, exit_code, msg,
    device_count, devices,
    recording_length_sec, master_index, master_index_designated,
    master_serial_provided, master_serial_arg, subordinate_delay_usec,
    found_index, candidates, jackReads,
    configured, opened, streaming, startLog, exposureSet, gainSet,
    recState, stopCalls, flushCalls, flushFailed, closeCalls, reported,
    now, end_time, wr, cap, polls, pollLog, nSuccess, nWrite, nRelease

ctl   == <<pc, i, exit_code, msg>>
args  == <<recording_length_sec, master_index_designated,
           master_serial_provided, master_serial_arg, subordinate_delay_usec>>
elect == <<master_index, found_index, candidates, jackReads>>
hw    == <<opened, streaming, startLog, exposureSet, gainSet, recState,
           stopCalls, flushCalls, flushFailed, closeCalls, reported>>
loop  == <<now, end_time, wr, cap, polls, pollLog, nSuccess, nWrite,
           nRelease>>
vars  == <<ctl, device_count, devices, args, elect, configured, hw, loop>>

\* ------------------------------------------------------------- helpers
Indices == 0 .. (device_count - 1)

Dev(k) == devices[k + 1]

\* K4A_DEVICE_CONFIG_INIT_DISABLE_ALL, the initial value of DeviceCtx.config
K4A_DEVICE_CONFIG_INIT_DISABLE_ALL ==
    [ color_format                      |-> "MJPG",
      color_resolution                  |-> "OFF",
      depth_mode                        |-> "OFF",
      camera_fps                        |-> 30,
      synchronized_images_only          |-> FALSE,
      depth_delay_off_color_usec        |-> 0,
      wired_sync_mode                   |-> "STANDALONE",
      subordinate_delay_off_master_usec |-> 0 ]

\* C10, mutant: die reports the error but does not leave the program
dieNoExit(m) ==
    /\ pc' = pc
    /\ exit_code' = DieExitCode
    /\ msg' = m

\* C12, mutant: die exits with the success code
dieExitZero(m) ==
    /\ pc' = "exited"
    /\ exit_code' = 0
    /\ msg' = m

\* die(): print the message and std::exit(code) at once; nothing is unwound
die(m) ==
    /\ pc' = "exited"
    /\ exit_code' = DieExitCode
    /\ msg' = m

get_serial(ok, hwSerial) == IF ok THEN hwSerial ELSE "unknown_serial"

make_filename(index, serial) == <<"k4a_", index, "_", serial, ".mkv">>

\* C5, mutant: the serial is not compared and the first device is returned
find_master_by_serialFirst(serial) == IF devices # <<>> THEN Dev(0).index ELSE -1

\* find_master_by_serial: index of the first context whose serial matches
find_master_by_serial(serial) ==
    IF \E k \in Indices : Dev(k).serial = serial
    THEN LET first == CHOOSE k \in Indices :
                        /\ Dev(k).serial = serial
                        /\ \A j \in Indices : Dev(j).serial = serial => k <= j
         IN  Dev(first).index
    ELSE -1

\* ---------------------------------------------------------------- Init
Init ==
    /\ pc = "start"
    /\ i = 0
    /\ exit_code = -1
    /\ msg = ""
    /\ device_count \in 0 .. MaxDevices
    /\ devices = <<>>
    /\ recording_length_sec = DefaultRecordingLengthSec
    /\ master_index = DefaultMasterIndex
    /\ master_index_designated = FALSE
    /\ master_serial_provided = FALSE
    /\ master_serial_arg = ""
    /\ subordinate_delay_usec = DefaultSubordinateDelay
    /\ found_index = -1
    /\ candidates = {}
    /\ jackReads = 0
    /\ configured = FALSE
    /\ opened = {}
    /\ streaming = {}
    /\ startLog = <<>>
    /\ exposureSet = {}
    /\ gainSet = {}
    /\ recState = [k \in 0 .. (MaxDevices - 1) |-> "none"]
    /\ stopCalls = {}
    /\ flushCalls = {}
    /\ flushFailed = {}
    /\ closeCalls = {}
    /\ reported = <<>>
    /\ now = 0
    /\ end_time = 0
    /\ wr = "none"
    /\ cap = -1
    /\ polls = 0
    /\ pollLog = <<>>
    /\ nSuccess = 0
    /\ nWrite = 0
    /\ nRelease = 0

\* ------------------------------------------------------------- actions
\* main, lines 86-90
CheckDeviceCount ==
    /\ pc = "start"
    /\ IF device_count = 0
       THEN /\ die("No Azure Kinect devices found!")
            /\ UNCHANGED i
       ELSE /\ pc' = "parse"
            /\ UNCHANGED <<i, exit_code, msg>>
    /\ UNCHANGED <<device_count, devices, args, elect, configured, hw, loop>>

\* main, lines 94-121: the options; an absent option keeps its default
ParseArgs ==
    /\ pc = "parse"
    /\ recording_length_sec' \in {DefaultRecordingLengthSec} \cup SecondsArgs
    /\ master_index_designated' \in BOOLEAN
    /\ IF master_index_designated'
       THEN master_index' \in IndexArgs
       ELSE master_index' = master_index
    /\ master_serial_provided' \in BOOLEAN
    /\ IF master_serial_provided'
       THEN master_serial_arg' \in SerialArgs
       ELSE master_serial_arg' = master_serial_arg
    /\ subordinate_delay_usec' \in {DefaultSubordinateDelay} \cup DelayArgs
    /\ pc' = "open"
    /\ i' = 0
    /\ UNCHANGED <<exit_code, msg, device_count, devices, found_index,
                   candidates, jackReads, configured, hw, loop>>

\* main, lines 129-144: one iteration of the open loop
OpenDevice ==
    /\ pc = "open"
    /\ i < device_count
    /\ \E ok \in BOOLEAN :
         IF ~ok
         THEN /\ die("Failed to open device")
              /\ UNCHANGED <<i, devices, opened>>
         ELSE \E serialOk \in BOOLEAN, hwSerial \in HwSerials :
                LET serial == get_serial(serialOk, hwSerial)
                    ctx == [ index    |-> i,
                             dev      |-> "handle",
                             serial   |-> serial,
                             config   |-> K4A_DEVICE_CONFIG_INIT_DISABLE_ALL,
                             rec      |-> "null",
                             filename |-> make_filename(i, serial) ]
                IN  /\ devices' = Append(devices, ctx)
                    /\ opened' = opened \cup {i}
                    /\ i' = i + 1
                    /\ pc' = IF i + 1 < device_count THEN "open" ELSE "elect"
                    /\ UNCHANGED <<exit_code, msg>>
    /\ UNCHANGED <<device_count, args, elect, configured, streaming, startLog,
                   exposureSet, gainSet, recState, stopCalls, flushCalls,
                   flushFailed, closeCalls, reported, loop>>

\* C3, mutant: a device qualifies as soon as sync out is connected
IsMasterCandidateOutOnly(sync_in, sync_out) == sync_out

\* the test of line 169: sync out connected, sync in not
IsMasterCandidate(sync_in, sync_out) == sync_out /\ ~sync_in

\* C4, mutant: a second candidate is not noticed and replaces the first
AmbiguousMasterNever(found) == FALSE

\* the test of line 171: an earlier device already qualified
AmbiguousMaster(found) == found # -1

\* main, lines 182-189: --master-serial was given
ElectBySerial ==
    /\ pc = "elect"
    /\ master_serial_provided
    /\ master_index' = find_master_by_serial(master_serial_arg)
    /\ IF master_index' = -1
       THEN die("Master serial not found among connected devices")
       ELSE /\ pc' = "validate"
            /\ UNCHANGED <<exit_code, msg>>
    /\ UNCHANGED <<i, device_count, devices, args, found_index, candidates,
                   jackReads, configured, hw, loop>>

\* main, lines 182 and 190: no serial, and master_index is not -1: neither
\* branch is taken and the index goes to the bounds check as it is
ElectByIndex ==
    /\ pc = "elect"
    /\ ~master_serial_provided
    /\ master_index # -1
    /\ pc' = "validate"
    /\ UNCHANGED <<i, exit_code, msg, device_count, devices, args, elect,
                   configured, hw, loop>>

\* main, lines 190-192 and 154-155: no serial and master_index is -1:
\* find_master_by_sync_jack is entered
ElectBySyncJack ==
    /\ pc = "elect"
    /\ ~master_serial_provided
    /\ master_index = -1
    /\ found_index' = -1
    /\ i' = 0
    /\ pc' = "jack"
    /\ UNCHANGED <<exit_code, msg, device_count, devices, args, master_index,
                   candidates, jackReads, configured, hw, loop>>

\* find_master_by_sync_jack, lines 156-178: one iteration, reading the jacks
\* of device i.  candidates records which devices the hardware reported with
\* sync out connected and sync in not connected.
ReadSyncJack ==
    /\ pc = "jack"
    /\ i < device_count
    /\ \E ok \in BOOLEAN, sync_in \in BOOLEAN, sync_out \in BOOLEAN :
         IF ~ok
         THEN /\ die("Failed to read sync jack state for device")
              /\ UNCHANGED <<i, found_index, candidates, jackReads>>
         ELSE /\ jackReads' = jackReads + 1
              /\ candidates' = IF sync_out /\ ~sync_in
                               THEN candidates \cup {Dev(i).index}
                               ELSE candidates
              /\ IF IsMasterCandidate(sync_in, sync_out)
                 THEN IF AmbiguousMaster(found_index)
                      THEN /\ die("Multiple master candidates detected")
                           /\ UNCHANGED <<i, found_index>>
                      ELSE /\ found_index' = Dev(i).index
                           /\ i' = i + 1
                           /\ pc' = IF i + 1 < device_count
                                    THEN "jack" ELSE "jackdone"
                           /\ UNCHANGED <<exit_code, msg>>
                 ELSE /\ i' = i + 1
                      /\ pc' = IF i + 1 < device_count
                               THEN "jack" ELSE "jackdone"
                      /\ UNCHANGED <<found_index, exit_code, msg>>
    /\ UNCHANGED <<device_count, devices, args, master_index, configured,
                   hw, loop>>

\* main, lines 179 and 192-197: the lambda returns found_index
SyncJackResult ==
    /\ pc = "jackdone"
    /\ master_index' = found_index
    /\ IF master_index' = -1
       THEN die("No master detected via sync jacks")
       ELSE /\ pc' = "validate"
            /\ UNCHANGED <<exit_code, msg>>
    /\ UNCHANGED <<i, device_count, devices, args, found_index, candidates,
                   jackReads, configured, hw, loop>>

\* the test of line 200, negated
MasterIndexInRange(m, count) == ~(m < 0 \/ m >= count)

\* main, lines 200-205
ValidateMasterIndex ==
    /\ pc = "validate"
    /\ IF ~MasterIndexInRange(master_index, device_count)
       THEN die("Invalid master index.")
       ELSE /\ pc' = "configure"
            /\ UNCHANGED <<exit_code, msg>>
    /\ UNCHANGED <<i, device_count, devices, args, elect, configured, hw, loop>>

\* C2, mutant: every device from the master's index upwards is made a master
wired_sync_mode_ofGe(index, master) ==
    IF index >= master THEN "MASTER" ELSE "SUBORDINATE"

\* lines 226-235: the sync role and the delay of one device
wired_sync_mode_of(index, master) ==
    IF index = master THEN "MASTER" ELSE "SUBORDINATE"

\* C7, mutant: the master's branch is lost and every device gets the offset
subordinate_delay_ofAll(index, master, delay) == delay

subordinate_delay_of(index, master, delay) ==
    IF index = master THEN 0 ELSE delay

\* lines 210-237: the configuration of one device
derive_config(index, master, delay) ==
    [ color_format                      |-> "BGRA32",
      color_resolution                  |-> "1440P",
      depth_mode                        |-> "NFOV_UNBINNED",
      camera_fps                        |-> 30,
      synchronized_images_only          |-> TRUE,
      depth_delay_off_color_usec        |-> 0,
      wired_sync_mode                   |-> wired_sync_mode_of(index, master),
      subordinate_delay_off_master_usec |->
          subordinate_delay_of(index, master, delay) ]

\* main, lines 208-238: the configuration loop; it makes no SDK call
ConfigureDevices ==
    /\ pc = "configure"
    /\ devices' = [k \in 1 .. Len(devices) |->
                     [devices[k] EXCEPT !.config =
                        derive_config(devices[k].index, master_index,
                                      subordinate_delay_usec)]]
    /\ configured' = TRUE
    /\ i' = 0
    /\ pc' = "exposure"
    /\ UNCHANGED <<exit_code, msg, device_count, args, elect, hw, loop>>

\* C16, mutant: the exposure call is left out
SetExposureSkipped ==
    /\ pc = "exposure"
    /\ pc' = "gain"
    /\ UNCHANGED <<i, exit_code, msg, device_count, devices, args, elect,
                   configured, hw, loop>>

\* set_manual_exposure_and_gain, lines 55-61, called at line 242
SetExposure ==
    /\ pc = "exposure"
    /\ \E ok \in BOOLEAN :
         IF ~ok
         THEN /\ die("Failed to set manual exposure.")
              /\ UNCHANGED exposureSet
         ELSE /\ exposureSet' = exposureSet \cup {i}
              /\ pc' = "gain"
              /\ UNCHANGED <<exit_code, msg>>
    /\ UNCHANGED <<i, device_count, devices, args, elect, configured, opened,
                   streaming, startLog, gainSet, recState, stopCalls,
                   flushCalls, flushFailed, closeCalls, reported, loop>>

\* set_manual_exposure_and_gain, lines 63-69, and the loop of lines 240-243
SetGain ==
    /\ pc = "gain"
    /\ \E ok \in BOOLEAN :
         IF ~ok
         THEN /\ die("Failed to set manual gain.")
              /\ UNCHANGED <<i, gainSet>>
         ELSE /\ gainSet' = gainSet \cup {i}
              /\ i' = IF i + 1 < device_count THEN i + 1 ELSE 0
              /\ pc' = IF i + 1 < device_count THEN "exposure" ELSE "create"
              /\ UNCHANGED <<exit_code, msg>>
    /\ UNCHANGED <<device_count, devices, args, elect, configured, opened,
                   streaming, startLog, exposureSet, recState, stopCalls,
                   flushCalls, flushFailed, closeCalls, reported, loop>>

\* main, lines 247-250
RecordCreate ==
    /\ pc = "create"
    /\ \E ok \in BOOLEAN :
         IF ~ok
         THEN /\ die("Unable to create recording file")
              /\ UNCHANGED <<devices, recState>>
         ELSE /\ devices' = [devices EXCEPT ![i + 1].rec = "handle"]
              /\ recState' = [recState EXCEPT ![i] = "created"]
              /\ pc' = "header"
              /\ UNCHANGED <<exit_code, msg>>
    /\ UNCHANGED <<i, device_count, args, elect, configured, opened,
                   streaming, startLog, exposureSet, gainSet, stopCalls,
                   flushCalls, flushFailed, closeCalls, reported, loop>>

\* main, lines 251-254, and the loop of lines 245-255
WriteHeader ==
    /\ pc = "header"
    /\ \E ok \in BOOLEAN :
         IF ~ok
         THEN /\ die("Unable to write header")
              /\ UNCHANGED <<i, recState>>
         ELSE /\ recState' = [recState EXCEPT ![i] = "header"]
              /\ i' = IF i + 1 < device_count THEN i + 1 ELSE 0
              /\ pc' = IF i + 1 < device_count THEN "create" ELSE "startsubs"
              /\ UNCHANGED <<exit_code, msg>>
    /\ UNCHANGED <<device_count, devices, args, elect, configured, opened,
                   streaming, startLog, exposureSet, gainSet, stopCalls,
                   flushCalls, flushFailed, closeCalls, reported, loop>>

\* C1, mutant: the subordinate loop does not pass over the master
IsMasterDeviceNoSkip(index, master) == FALSE

\* the test of line 260: the subordinate loop passes over the master
IsMasterDevice(index, master) == index = master

\* main, lines 258-268: one iteration of the subordinate start loop; startLog
\* is the sequence of k4a_device_start_cameras calls, failed ones included
StartSubordinate ==
    /\ pc = "startsubs"
    /\ IF IsMasterDevice(Dev(i).index, master_index)
       THEN /\ i' = i + 1
            /\ pc' = IF i + 1 < device_count THEN "startsubs" ELSE "sleep"
            /\ UNCHANGED <<exit_code, msg, streaming, startLog>>
       ELSE \E ok \in BOOLEAN :
              IF ~ok
              THEN /\ die("Failed to start cameras on subordinate device")
                   /\ startLog' = Append(startLog, Dev(i).index)
                   /\ UNCHANGED <<i, streaming>>
              ELSE /\ streaming' = streaming \cup {Dev(i).index}
                   /\ startLog' = Append(startLog, Dev(i).index)
                   /\ i' = i + 1
                   /\ pc' = IF i + 1 < device_count
                            THEN "startsubs" ELSE "sleep"
                   /\ UNCHANGED <<exit_code, msg>>
    /\ UNCHANGED <<device_count, devices, args, elect, configured, opened,
                   exposureSet, gainSet, recState, stopCalls, flushCalls,
                   flushFailed, closeCalls, reported, loop>>

\* main, line 270: the settle delay
SettleDelay ==
    /\ pc = "sleep"
    /\ pc' = "startmaster"
    /\ UNCHANGED <<i, exit_code, msg, device_count, devices, args, elect,
                   configured, hw, loop>>

\* main, lines 272-279
StartMaster ==
    /\ pc = "startmaster"
    /\ \E ok \in BOOLEAN :
         IF ~ok
         THEN /\ die("Failed to start cameras on master device")
              /\ startLog' = Append(startLog, Dev(master_index).index)
              /\ UNCHANGED streaming
         ELSE /\ streaming' = streaming \cup {Dev(master_index).index}
              /\ startLog' = Append(startLog, Dev(master_index).index)
              /\ pc' = "deadline"
              /\ UNCHANGED <<exit_code, msg>>
    /\ UNCHANGED <<i, device_count, devices, args, elect, configured, opened,
                   exposureSet, gainSet, recState, stopCalls, flushCalls,
                   flushFailed, closeCalls, reported, loop>>

\* main, line 283
SetDeadline ==
    /\ pc = "deadline"
    /\ end_time' = now + recording_length_sec
    /\ pc' = "while"
    /\ UNCHANGED <<i, exit_code, msg, device_count, devices, args, elect,
                   configured, hw, now, wr, cap, polls, pollLog, nSuccess,
                   nWrite, nRelease>>

\* main, line 287: the deadline is tested at the head of the while loop
TestDeadline ==
    /\ pc = "while"
    /\ i' = 0
    /\ pc' = IF now < end_time THEN "poll" ELSE "stop"
    /\ UNCHANGED <<exit_code, msg, device_count, devices, args, elect,
                   configured, hw, loop>>

\* C17, mutant: the pass over the devices is broken off after each device
AfterDeviceBreak(k) == "while"

\* C19, mutant: the deadline is also looked at between two devices of a pass
AfterDeviceDeadline(k) ==
    IF now >= end_time THEN "while"
    ELSE IF k + 1 < device_count THEN "poll" ELSE "while"

\* lines 289 and 311-312: the next device of this pass, or the loop head
AfterDevice(k) == IF k + 1 < device_count THEN "poll" ELSE "while"

\* C8, mutant: only a failed wait is told apart, a timeout is written too
WaitSucceededOrTimedOut(r) == r # "FAILED"

\* the tests of lines 294 and 303 on the wait result
WaitSucceeded(r) == r = "SUCCEEDED"

WaitTimedOut(r) == r = "TIMEOUT"

\* main, lines 291-294 and 303-310: k4a_device_get_capture on device i.  The
\* wait lasts up to timeout_ms; dt is the number of clock ticks it is seen to
\* take, and at most MaxPolls polls return before the clock has ticked.  cap
\* is the capture handle the call hands out (the index of the device it came
\* from, -1 for none); nSuccess counts the polls that returned a capture, and
\* pollLog is the sequence of devices the call was made on.
GetCapture ==
    /\ pc = "poll"
    /\ polls' = polls + 1
    /\ pollLog' = Append(pollLog, Dev(i).index)
    /\ \E dt \in {0, 1} :
         /\ dt = 0 => polls < MaxPolls
         /\ now' = now + dt
    /\ \E r \in {"SUCCEEDED", "TIMEOUT", "FAILED"} :
         /\ wr' = r
         /\ nSuccess' = IF r = "SUCCEEDED" THEN nSuccess + 1 ELSE nSuccess
         /\ cap' = IF r = "SUCCEEDED" THEN Dev(i).index ELSE -1
         /\ IF WaitSucceeded(r)
            THEN /\ pc' = "write"
                 /\ UNCHANGED <<i, exit_code, msg>>
            ELSE IF WaitTimedOut(r)
            THEN /\ pc' = AfterDevice(i)
                 /\ i' = i + 1
                 /\ UNCHANGED <<exit_code, msg>>
            ELSE /\ die("k4a_device_get_capture() failed on device")
                 /\ UNCHANGED i
    /\ UNCHANGED <<device_count, devices, args, elect, configured, hw,
                   end_time, nWrite, nRelease>>

\* C20, mutant: the failing branch dies without releasing the capture
WriteCaptureLeak ==
    /\ pc = "write"
    /\ nWrite' = nWrite + 1
    /\ \E ok \in BOOLEAN :
         IF ~ok
         THEN /\ die("Failed to write capture for device")
              /\ UNCHANGED <<cap, nRelease>>
         ELSE /\ pc' = "release"
              /\ UNCHANGED <<cap, nRelease, exit_code, msg>>
    /\ UNCHANGED <<i, device_count, devices, args, elect, configured, hw,
                   now, end_time, wr, polls, pollLog, nSuccess>>

\* main, lines 296-300: k4a_record_write_capture; on failure the capture is
\* released and the run dies
WriteCapture ==
    /\ pc = "write"
    /\ nWrite' = nWrite + 1
    /\ \E ok \in BOOLEAN :
         IF ~ok
         THEN /\ cap' = -1
              /\ nRelease' = nRelease + 1
              /\ die("Failed to write capture for device")
         ELSE /\ pc' = "release"
              /\ UNCHANGED <<cap, nRelease, exit_code, msg>>
    /\ UNCHANGED <<i, device_count, devices, args, elect, configured, hw,
                   now, end_time, wr, polls, pollLog, nSuccess>>

\* main, line 301
ReleaseCapture ==
    /\ pc = "release"
    /\ cap' = -1
    /\ nRelease' = nRelease + 1
    /\ pc' = AfterDevice(i)
    /\ i' = i + 1
    /\ UNCHANGED <<exit_code, msg, device_count, devices, args, elect,
                   configured, hw, now, end_time, wr, polls, pollLog, nSuccess,
                   nWrite>>

\* C13, mutant: the stop loop is left out
StopCamerasNone ==
    /\ pc = "stop"
    /\ i' = 0
    /\ pc' = "flush"
    /\ UNCHANGED <<exit_code, msg, device_count, devices, args, elect,
                   configured, hw, loop>>

\* main, lines 317-320: one iteration of the stop loop
StopCameras ==
    /\ pc = "stop"
    /\ streaming' = streaming \ {Dev(i).index}
    /\ stopCalls' = stopCalls \cup {Dev(i).index}
    /\ i' = IF i + 1 < device_count THEN i + 1 ELSE 0
    /\ pc' = IF i + 1 < device_count THEN "stop" ELSE "flush"
    /\ UNCHANGED <<exit_code, msg, device_count, devices, args, elect,
                   configured, opened, startLog, exposureSet, gainSet,
                   recState, flushCalls, flushFailed, closeCalls, reported,
                   loop>>

\* C15, mutant: the flush and close loop is left out
FlushAndCloseNone ==
    /\ pc = "flush"
    /\ i' = 0
    /\ pc' = "close"
    /\ UNCHANGED <<exit_code, msg, device_count, devices, args, elect,
                   configured, hw, loop>>

\* main, lines 322-327: one iteration of the flush and close loop; the result
\* of k4a_record_flush is discarded
FlushAndClose ==
    /\ pc = "flush"
    /\ \E flushOk \in BOOLEAN :
         flushFailed' = IF flushOk THEN flushFailed
                        ELSE flushFailed \cup {Dev(i).index}
    /\ flushCalls' = flushCalls \cup {Dev(i).index}
    /\ closeCalls' = closeCalls \cup {Dev(i).index}
    /\ recState' = [recState EXCEPT ![Dev(i).index] = "closed"]
    /\ devices' = [devices EXCEPT ![i + 1].rec = "null"]
    /\ i' = IF i + 1 < device_count THEN i + 1 ELSE 0
    /\ pc' = IF i + 1 < device_count THEN "flush" ELSE "close"
    /\ UNCHANGED <<exit_code, msg, device_count, args, elect, configured,
                   opened, streaming, startLog, exposureSet, gainSet,
                   stopCalls, reported, loop>>

\* C18, mutant: the device close loop is left out
CloseDeviceNone ==
    /\ pc = "close"
    /\ i' = 0
    /\ pc' = "report"
    /\ UNCHANGED <<exit_code, msg, device_count, devices, args, elect,
                   configured, hw, loop>>

\* main, lines 329-333: one iteration of the device close loop
CloseDevice ==
    /\ pc = "close"
    /\ opened' = opened \ {Dev(i).index}
    /\ devices' = [devices EXCEPT ![i + 1].dev = "null"]
    /\ i' = IF i + 1 < device_count THEN i + 1 ELSE 0
    /\ pc' = IF i + 1 < device_count THEN "close" ELSE "report"
    /\ UNCHANGED <<exit_code, msg, device_count, args, elect, configured,
                   streaming, startLog, exposureSet, gainSet, recState,
                   stopCalls, flushCalls, flushFailed, closeCalls, reported,
                   loop>>

\* main, lines 335-341: every filename is listed, and main returns 0
ReportAndReturn ==
    /\ pc = "report"
    /\ reported' = [k \in 1 .. Len(devices) |-> devices[k].filename]
    /\ exit_code' = 0
    /\ pc' = "exited"
    /\ UNCHANGED <<i, msg, device_count, devices, args, elect, configured,
                   opened, streaming, startLog, exposureSet, gainSet,
                   recState, stopCalls, flushCalls, flushFailed, closeCalls,
                   loop>>

Next ==
    \/ CheckDeviceCount
    \/ ParseArgs
    \/ OpenDevice
    \/ ElectBySerial
    \/ ElectByIndex
    \/ ElectBySyncJack
    \/ ReadSyncJack
    \/ SyncJackResult
    \/ ValidateMasterIndex
    \/ ConfigureDevices
    \/ SetExposure
    \/ SetGain
    \/ RecordCreate
    \/ WriteHeader
    \/ StartSubordinate
    \/ SettleDelay
    \/ StartMaster
    \/ SetDeadline
    \/ TestDeadline
    \/ GetCapture
    \/ WriteCapture
    \/ ReleaseCapture
    \/ StopCameras
    \/ FlushAndClose
    \/ CloseDevice
    \/ ReportAndReturn

Spec == Init /\ [][Next]_vars

\* main is one thread that runs on as long as a statement is left, and every
\* SDK call returns: a step is taken whenever one is possible
InitFair == Init /\ device_count <= MaxFairDevices

SpecFair == InitFair /\ [][Next]_vars /\ WF_vars(Next)

\* ===================================================================
\* Properties
\* ===================================================================
IsPrefix(s, t) == Len(s) <= Len(t) /\ \A k \in 1 .. Len(s) : s[k] = t[k]

RECURSIVE Ascending(_, _)
\* the indices k .. device_count-1 other than the master, in ascending order
Ascending(k, master) ==
    IF k >= device_count THEN <<>>
    ELSE IF k = master THEN Ascending(k + 1, master)
    ELSE <<k>> \o Ascending(k + 1, master)

\* the choreography: every subordinate in ascending index order, then the master
ExpectedStartOrder == Ascending(0, master_index) \o <<master_index>>

\* main has passed the start of the master's cameras
AllStarted == pc \in {"deadline", "while", "poll", "write", "release",
                      "stop", "flush", "close", "report"}

\* C1: for every device set of size >= 2 the sequence of camera-start calls
\* is at every moment a prefix of <subordinates in ascending index order,
\* master>, and it is that whole sequence once all cameras have been started;
\* so the master is never started before a subordinate.
C1_StartOrder ==
    (device_count >= 2 /\ startLog # <<>>) =>
        /\ IsPrefix(startLog, ExpectedStartOrder)
        /\ AllStarted => startLog = ExpectedStartOrder

C1_Witness ==
    /\ device_count = 3
    /\ master_index = 1
    /\ pc = "while"
    /\ startLog = <<0, 2, 1>>

MasterRoles == {k \in Indices : Dev(k).config.wired_sync_mode = "MASTER"}

\* C2: once the configuration has been derived, exactly one opened device has
\* the sync role Master and every other one has the role Subordinate, on each
\* of the three election paths.
C2_ExactlyOneMaster ==
    configured =>
        /\ Len(devices) = device_count
        /\ Cardinality(MasterRoles) = 1
        /\ \A k \in Indices \ MasterRoles :
             Dev(k).config.wired_sync_mode = "SUBORDINATE"

C2_Witness ==
    /\ configured
    /\ device_count = 3
    /\ jackReads = 3
    /\ MasterRoles = {2}

\* no --master-serial and no --master-index was given
NoOverride ==
    /\ pc \notin {"start", "parse"}
    /\ ~master_serial_provided
    /\ ~master_index_designated

\* find_master_by_sync_jack has run to its end or to a die
SyncJackElectionOver == pc \notin {"start", "parse", "open", "elect", "jack", "jackdone"}

\* every opened device has been read
AllJacksRead == device_count > 0 /\ jackReads = device_count

ElectionFailures ==
    { "Master serial not found among connected devices",
      "Failed to read sync jack state for device",
      "Multiple master candidates detected",
      "No master detected via sync jacks",
      "Invalid master index." }

\* C3: with no override, when the readings of all devices show exactly one
\* device with sync out connected and sync in not, the election ends with that
\* device's index as master index, and it does not fail.
C3_UniqueCandidateElected ==
    (NoOverride /\ SyncJackElectionOver /\ AllJacksRead
       /\ Cardinality(candidates) = 1) =>
        /\ candidates = {master_index}
        /\ msg \notin ElectionFailures

C3_Witness ==
    /\ NoOverride
    /\ pc = "configure"
    /\ device_count = 3
    /\ jackReads = 3
    /\ candidates = {1}
    /\ master_index = 1

NothingConfiguredOrStarted ==
    /\ ~configured
    /\ exposureSet = {}
    /\ gainSet = {}
    /\ \A k \in DOMAIN recState : recState[k] = "none"
    /\ startLog = <<>>
    /\ streaming = {}

\* C4: with no override, when the readings of all devices show no candidate
\* the run has exited with "No master detected", when two devices have read
\* as candidates it has exited with "Multiple master candidates detected", and
\* in both cases no configuration has been derived, no exposure or gain has
\* been set, no recording has been created and no camera has been started.
C4_NoOrAmbiguousMasterHalts ==
    /\ (NoOverride /\ SyncJackElectionOver /\ AllJacksRead /\ candidates = {}) =>
         /\ pc = "exited"
         /\ exit_code # 0
         /\ msg = "No master detected via sync jacks"
         /\ NothingConfiguredOrStarted
    /\ (NoOverride /\ Cardinality(candidates) > 1) =>
         /\ pc = "exited"
         /\ exit_code # 0
         /\ msg = "Multiple master candidates detected"
         /\ NothingConfiguredOrStarted

C4_Witness ==
    /\ NoOverride
    /\ device_count = 3
    /\ candidates = {0, 2}
    /\ pc = "exited"
    /\ msg = "Multiple master candidates detected"

C4_WitnessNoMaster ==
    /\ NoOverride
    /\ device_count = 3
    /\ jackReads = 3
    /\ candidates = {}
    /\ pc = "exited"
    /\ msg = "No master detected via sync jacks"

\* every device was opened and the election has been made or has failed
ElectionOver ==
    /\ device_count > 0
    /\ Len(devices) = device_count
    /\ pc \notin {"start", "parse", "open", "elect", "jack", "jackdone"}

SerialMatches == {k \in Indices : Dev(k).serial = master_serial_arg}

\* C5: when --master-serial is given the jacks are never read, whatever
\* --master-index says; if the serial matches an opened device the master
\* index is the index of a device with that serial and the election does not
\* fail, and if it matches none the run has exited with "Master serial not
\* found".
C5_SerialTakesPrecedence ==
    (master_serial_provided /\ pc \notin {"start", "parse"}) =>
        /\ jackReads = 0
        /\ ElectionOver =>
             IF SerialMatches # {}
             THEN /\ master_index \in SerialMatches
                  /\ msg \notin ElectionFailures
             ELSE /\ pc = "exited"
                  /\ exit_code # 0
                  /\ msg = "Master serial not found among connected devices"

C5_Witness ==
    /\ master_serial_provided
    /\ master_index_designated
    /\ device_count = 3
    /\ pc = "configure"
    /\ SerialMatches = {1, 2}
    /\ master_index = 1

C5_WitnessNotFound ==
    /\ master_serial_provided
    /\ master_index_designated
    /\ device_count = 3
    /\ Len(devices) = 3
    /\ SerialMatches = {}
    /\ msg = "Master serial not found among connected devices"

\* C6: with no --master-serial and a designated --master-index, the jacks are
\* never read, and once the bounds check has run the run has failed with
\* "Invalid master index." exactly when the designated index lies outside
\* 0 .. device_count-1, the master index being the designated one otherwise.
\* (The designated value is master_index itself as long as no jack is read.)
C6_DesignatedIndexChecked ==
    (~master_serial_provided /\ master_index_designated
       /\ pc \notin {"start", "parse"}) =>
        /\ jackReads = 0
        /\ pc \notin {"jack", "jackdone"}
        /\ (ElectionOver /\ pc # "validate") =>
             IF master_index \in Indices
             THEN msg \notin ElectionFailures
             ELSE /\ pc = "exited"
                  /\ msg = "Invalid master index."

\* the part of C6 that the code keeps: a designated index other than -1
C6_DesignatedIndexOtherThanSentinel ==
    (~master_serial_provided /\ master_index_designated
       /\ pc \notin {"start", "parse"} /\ jackReads = 0
       /\ pc \notin {"jack", "jackdone"} /\ master_index # -1
       /\ ElectionOver /\ pc # "validate") =>
             IF master_index \in Indices
             THEN msg \notin ElectionFailures
             ELSE /\ pc = "exited"
                  /\ msg = "Invalid master index."

OtherFields(c) ==
    <<c.color_format, c.color_resolution, c.depth_mode, c.camera_fps,
      c.synchronized_images_only, c.depth_delay_off_color_usec>>

\* C7: in the derived configuration the master's subordinate delay is 0, every
\* subordinate's is the configured offset, synchronized_images_only is true on
\* every device, and colour format, resolution, depth mode, frame rate and
\* depth-to-colour delay are the same on all devices.
C7_DerivedConfiguration ==
    configured =>
        \A k \in Indices :
            /\ Dev(k).config.subordinate_delay_off_master_usec =
                 (IF Dev(k).config.wired_sync_mode = "MASTER"
                  THEN 0 ELSE subordinate_delay_usec)
            /\ Dev(k).config.synchronized_images_only = TRUE
            /\ OtherFields(Dev(k).config) = OtherFields(Dev(0).config)

C7_Witness ==
    /\ configured
    /\ device_count = 3
    /\ master_index = 1
    /\ subordinate_delay_usec = 160
    /\ Dev(0).config.subordinate_delay_off_master_usec = 160
    /\ Dev(1).config.subordinate_delay_off_master_usec = 0
    /\ Dev(2).config.subordinate_delay_off_master_usec = 160

\* C8: in the capture loop the number of k4a_record_write_capture calls equals
\* the number of polls that returned a capture, except between such a poll and
\* its write; the write is to the session of the device just polled; the
\* capture is released before the next poll (none is held at a poll, and
\* releases equal writes); and a poll that times out is followed by no write
\* and no exit, only by the next poll or the deadline test.
C8_LoopInvariant ==
    /\ pc \notin {"write", "release"} =>
         /\ nWrite = nSuccess
         /\ nRelease = nWrite
         /\ cap = -1
    /\ pc = "write" =>
         /\ wr = "SUCCEEDED"
         /\ cap = Dev(i).index
         /\ nSuccess = nWrite + 1
         /\ nRelease = nWrite
    /\ pc = "release" =>
         /\ wr = "SUCCEEDED"
         /\ cap = Dev(i).index
         /\ nSuccess = nWrite
         /\ nRelease + 1 = nWrite

C8_TimeoutStep ==
    (pc = "poll" /\ polls' = polls + 1 /\ wr' = "TIMEOUT") =>
        /\ nWrite' = nWrite
        /\ pc' \in {"poll", "while"}
        /\ exit_code' = exit_code
        /\ msg' = msg

C8_WriteIffSuccess == [](C8_LoopInvariant) /\ [][C8_TimeoutStep]_vars

\* one device, four polls, two of them successful: two writes, two releases
C8_Witness ==
    /\ device_count = 1
    /\ pc = "while"
    /\ polls = 4
    /\ wr = "SUCCEEDED"
    /\ nSuccess = 2
    /\ nWrite = 2
    /\ nRelease = 2

StreamingErrors ==
    { "Failed to start cameras on subordinate device",
      "Failed to start cameras on master device",
      "k4a_device_get_capture() failed on device",
      "Failed to write capture for device" }

\* C9: when the run has exited on a camera start failure, a capture read
\* failure or a capture write failure, no device is streaming any more and a
\* flush/close has been attempted on every recording session.
C9_TeardownOnStreamingError ==
    (pc = "exited" /\ msg \in StreamingErrors) =>
        /\ streaming = {}
        /\ closeCalls = Indices

ExposureErrors ==
    { "Failed to set manual exposure.", "Failed to set manual gain." }

\* C10: when the setting of manual exposure or of manual gain has been
\* rejected on any device, the run has exited with a non-zero code and no
\* k4a_device_start_cameras call was made on any device.
C10_ExposureFailureStartsNothing ==
    msg \in ExposureErrors =>
        /\ pc = "exited"
        /\ exit_code # 0
        /\ startLog = <<>>
        /\ streaming = {}

\* gain rejected on the last of three devices, a subordinate
C10_Witness ==
    /\ device_count = 3
    /\ master_index = 0
    /\ msg = "Failed to set manual gain."
    /\ exposureSet = {0, 1, 2}
    /\ gainSet = {0, 1}
    /\ pc = "exited"

C10_WitnessMaster ==
    /\ device_count = 3
    /\ master_index = 1
    /\ msg = "Failed to set manual exposure."
    /\ exposureSet = {0}
    /\ pc = "exited"


\* C11: on every exit path, fatal ones included, every device handle that was
\* opened has been closed when the process exits.
C11_HandlesClosedAtExit ==
    pc = "exited" => opened = {}

\* die was called: a fatal condition occurred
FatalOccurred == msg # ""

\* the run went through every phase: open, election, configuration,
\* exposure/gain, recording creation, start, capture loop, stop, close
CompletedEveryPhase ==
    /\ Len(devices) = device_count
    /\ configured
    /\ exposureSet = Indices
    /\ gainSet = Indices
    /\ startLog = ExpectedStartOrder
    /\ now >= end_time
    /\ stopCalls = Indices
    /\ closeCalls = Indices
    /\ \A k \in Indices : recState[k] = "closed"
    /\ opened = {}
    /\ Len(reported) = device_count

\* C12: when the process has exited, its exit code is 0 exactly when the run
\* completed every phase without a fatal condition, and it is non-zero
\* whenever a fatal condition occurred.
C12_ExitCode ==
    pc = "exited" =>
        /\ exit_code = 0 <=> (~FatalOccurred /\ CompletedEveryPhase)
        /\ FatalOccurred => exit_code # 0
        /\ FatalOccurred \/ CompletedEveryPhase

C12_Witness ==
    /\ pc = "exited"
    /\ exit_code = 0
    /\ device_count = 3
    /\ nWrite = 2
    /\ ~FatalOccurred

C12_WitnessFatal ==
    /\ pc = "exited"
    /\ exit_code = 1
    /\ device_count = 3
    /\ msg = "Failed to write capture for device"


\* the normal shutdown has closed the recordings
RecordingsShutDown == pc = "close" \/ pc = "report" \/ (pc = "exited" /\ exit_code = 0)

C13_SessionStates ==
    /\ startLog # <<>> =>
         \A k \in Indices : recState[k] \in {"header", "closed"}
    /\ pc = "write" =>
         /\ recState[Dev(i).index] = "header"
         /\ Dev(i).rec = "handle"
         /\ streaming = Indices
    /\ pc = "flush" => closeCalls = {Dev(k).index : k \in 0 .. (i - 1)}
    /\ RecordingsShutDown =>
         /\ closeCalls = Indices
         /\ \A k \in Indices : recState[k] = "closed" /\ Dev(k).rec = "null"

C13_SessionSteps ==
    /\ nWrite' # nWrite =>
         /\ pc = "write"
         /\ recState[Dev(i).index] = "header"
    /\ \A k \in Indices :
         (recState'[k] = "closed" /\ recState[k] # "closed") =>
            /\ recState[k] = "header"
            /\ k \notin closeCalls
            /\ k \in stopCalls
            /\ k \notin streaming
    /\ \A k \in Indices : recState[k] = "closed" => recState'[k] = "closed"

\* C13: every recording session is created and has its header written before
\* the first camera-start call; a frame is written only in the capture loop,
\* to a session whose header is written and that is not closed; on a run that
\* reaches shutdown each session is flushed and closed once (the k-th close
\* call is on a device not closed before, and all are closed at the end), and
\* only after its device's camera was stopped.
C13_RecordingLifecycle == [](C13_SessionStates) /\ [][C13_SessionSteps]_vars

C13_Witness ==
    /\ pc = "close"
    /\ i = 0
    /\ device_count = 3
    /\ nWrite = 2
    /\ closeCalls = {0, 1, 2}
    /\ stopCalls = {0, 1, 2}


ReportedFiles == {reported[k] : k \in 1 .. Len(reported)}

\* C14: when the flush of a device's recording failed during a normal
\* completion, the exit code stays 0 and the final "Wrote:" report does not
\* list that device's file.
C14_FailedFlushNotReported ==
    (pc = "exited" /\ ~FatalOccurred) =>
        /\ exit_code = 0
        /\ \A k \in flushFailed : Dev(k).filename \notin ReportedFiles

\* the half of C14 that the code keeps: a failed flush leaves the exit code 0
C14_FailedFlushKeepsExitCode ==
    (pc = "exited" /\ ~FatalOccurred /\ flushFailed # {}) => exit_code = 0


\* the devices whose handle has been released by k4a_device_close
HandlesReleased == {k \in Indices : k < Len(devices) /\ Dev(k).dev = "null"}

\* C15: during shutdown no recording is flushed or closed before every
\* camera has been stopped, and no device handle is released before every
\* recording session has been closed; so no handle is released while its own
\* session is open.
C15_ShutdownOrder ==
    /\ (flushCalls # {} \/ closeCalls # {}) =>
         /\ stopCalls = Indices
         /\ streaming = {}
    /\ HandlesReleased # {} =>
         /\ closeCalls = Indices
         /\ \A k \in Indices : recState[k] = "closed" /\ Dev(k).rec = "null"
    /\ opened \cup HandlesReleased = {k \in Indices : k < Len(devices)}

C15_Witness ==
    /\ pc = "close"
    /\ i = 1
    /\ device_count = 3
    /\ HandlesReleased = {0}
    /\ opened = {1, 2}
    /\ closeCalls = {0, 1, 2}


C16_SettingsStates ==
    /\ startLog # <<>> =>
         /\ exposureSet = Indices
         /\ gainSet = Indices
    /\ pc \in {"exposure", "gain"} =>
         /\ startLog = <<>>
         /\ streaming = {}

C16_SettingsSteps ==
    (exposureSet' # exposureSet \/ gainSet' # gainSet) =>
        /\ pc \in {"exposure", "gain"}
        /\ startLog = <<>>
        /\ streaming = {}
        /\ streaming' = {}

\* C16: manual exposure and gain have been applied to every opened device
\* before the first camera-start call on any device, and no exposure or gain
\* call is made, and none takes effect, while a device is streaming.
C16_SettingsBeforeStart == [](C16_SettingsStates) /\ [][C16_SettingsSteps]_vars

C16_Witness ==
    /\ pc = "startsubs"
    /\ device_count = 3
    /\ master_index = 2
    /\ startLog = <<0>>
    /\ streaming = {0}
    /\ exposureSet = {0, 1, 2}
    /\ gainSet = {0, 1, 2}


C17_PollOrder ==
    /\ \A j \in 1 .. Len(pollLog) : pollLog[j] = (j - 1) % device_count
    /\ pc = "poll" => Len(pollLog) % device_count = i
    /\ pc \in {"write", "release"} => Len(pollLog) % device_count = (i + 1) % device_count
    /\ pc = "while" => Len(pollLog) % device_count = 0

C17_OutcomeStep ==
    /\ (pc = "poll" /\ polls' = polls + 1 /\ wr' = "TIMEOUT") =>
         /\ i' = i + 1
         /\ pc' = IF i + 1 < device_count THEN "poll" ELSE "while"
    /\ (pc = "poll" /\ polls' = polls + 1 /\ wr' = "SUCCEEDED") =>
         /\ i' = i
         /\ pc' = "write"
    /\ (pc = "release" /\ pc' # "release") =>
         /\ i' = i + 1
         /\ pc' = IF i + 1 < device_count THEN "poll" ELSE "while"

\* C17: the k4a_device_get_capture calls go round the devices in ascending
\* index order, 0, 1, .., device_count-1, again and again: the j-th call of a
\* run is on device (j-1) mod device_count whatever the earlier outcomes
\* were, the loop head is reached only after a whole pass, and after a
\* Timeout or a Success on device i the next call of the pass is on i+1.
C17_FixedPollOrder == [](C17_PollOrder) /\ [][C17_OutcomeStep]_vars

C17_Witness ==
    /\ pc = "while"
    /\ device_count = 3
    /\ pollLog = <<0, 1, 2, 0, 1, 2>>
    /\ nSuccess = 3

\* the number of k4a_device_get_capture calls made on device k
PollCount(k) == Cardinality({j \in 1 .. Len(pollLog) : pollLog[j] = k})

\* the while loop was left because the deadline had passed
LeftLoopNormally ==
    \/ pc \in {"stop", "flush", "close", "report"}
    \/ (pc = "exited" /\ ~FatalOccurred)

\* C19: on every run that leaves the capture loop through the deadline test,
\* every device has been polled the same number of times, and no device has
\* been polled at all when the recording length is zero or negative.
C19_EqualPollCounts ==
    LeftLoopNormally =>
        /\ LET first == PollCount(0)
           IN  \A k \in Indices : PollCount(k) = first
        /\ Len(pollLog) = polls
        /\ recording_length_sec <= 0 => pollLog = <<>>

C19_Witness ==
    /\ pc = "stop"
    /\ i = 0
    /\ device_count = 3
    /\ recording_length_sec = 3
    /\ PollCount(0) = 2
    /\ PollCount(2) = 2

C19_WitnessNoPoll ==
    /\ pc = "stop"
    /\ device_count = 3
    /\ recording_length_sec = 0
    /\ pollLog = <<>>

C20_CaptureStates ==
    /\ nRelease <= nSuccess
    /\ nSuccess <= nRelease + 1
    /\ cap # -1 <=> nSuccess = nRelease + 1
    /\ (pc = "poll" \/ pc = "exited") =>
         /\ cap = -1
         /\ nRelease = nSuccess

C20_CaptureSteps ==
    /\ nRelease' # nRelease =>
         /\ nRelease' = nRelease + 1
         /\ pc \in {"write", "release"}
         /\ wr = "SUCCEEDED"
         /\ cap # -1
         /\ cap' = -1
    /\ (pc = "poll" /\ polls' = polls + 1 /\ wr' # "SUCCEEDED") =>
         /\ nRelease' = nRelease
         /\ cap' = -1

\* C20: every capture obtained by a successful poll is released exactly once,
\* after a successful write and after a failed one; nothing is released after
\* a Timeout or a failed poll; and at every poll and at process exit no
\* capture is held.
C20_CaptureReleasedOnce == [](C20_CaptureStates) /\ [][C20_CaptureSteps]_vars

\* a write fails on the second capture: both captures were released
C20_Witness ==
    /\ pc = "exited"
    /\ msg = "Failed to write capture for device"
    /\ nSuccess = 2
    /\ nWrite = 2
    /\ nRelease = 2
    /\ cap = -1


\* all cameras are started and the capture loop is about to begin
EnteredStreaming == pc = "deadline"

\* the run is over: aborted on a capture read or write failure, or shut down
\* with every camera stopped, every session closed and every handle released
StreamingEnded ==
    /\ pc = "exited"
    /\ \/ msg \in { "k4a_device_get_capture() failed on device",
                    "Failed to write capture for device" }
       \/ /\ ~FatalOccurred
          /\ now >= end_time
          /\ streaming = {}
          /\ stopCalls = Indices
          /\ closeCalls = Indices
          /\ opened = {}

\* C18: when every poll returns and the clock ticks with the polls (after at
\* most MaxPolls polls without a tick), every run that enters Streaming
\* eventually ends: it aborts on a fatal capture error, or it leaves the loop
\* when the recording length has elapsed and then stops all cameras, closes
\* all sessions and releases all handles.
C18_StreamingEnds == EnteredStreaming ~> StreamingEnded

C18_Witness ==
    /\ pc = "exited"
    /\ ~FatalOccurred
    /\ device_count = 2
    /\ recording_length_sec = 3
    /\ polls = 4
    /\ now >= end_time
    /\ opened = {}


====
